---- MODULE Spec2Model ----
(***************************************************************************)
(* Record reconciliation (Issue.update_from) and description merge         *)
(* (Issue.merge_descriptions) of sync_agile_boards, src/src/issue.py.      *)
(*                                                                         *)
(* A text is a sequence of one-character strings.  An optional Python      *)
(* value is a sequence of length at most one: None is <<>> and the value v *)
(* is <<v>>, so that None, 0, the empty text and the empty list are all    *)
(* different values, as they are in Python.                                *)
(***************************************************************************)
EXTENDS Integers, Sequences, FiniteSets, TLC

VARIABLES sink, source, old, outcome, retval, md_source, md_sink, md_result,
          ji_key, ji_content, ji_response, ji_outcome, ji_issue,
          jr_data, jr_max, jr_start, jr_requests, jr_issues, jr_pc,
          api_server, api_action, api_page, api_outcome, api_content,
          api_requests

issue_vars == <<sink, source, old, outcome, retval>>
md_vars == <<md_source, md_sink, md_result>>
ji_vars == <<ji_key, ji_content, ji_response, ji_outcome, ji_issue>>
jr_vars == <<jr_data, jr_max, jr_start, jr_requests, jr_issues, jr_pc>>
api_vars == <<api_server, api_action, api_page, api_outcome, api_content,
              api_requests>>
vars == <<issue_vars, md_vars, ji_vars, jr_vars, api_vars>>

---------------------------------------------------------------------------
(* Bounds *)

\* longest description text of a freshly drawn record
MaxLen == 2
\* longest description text a reconciled sink may grow to
MaxDescLen == 3
\* longest text handed to merge_descriptions directly
MaxText == 3
\* most issues the tracker holds for the project
MaxTotal == 4
\* largest page size (maxResults) the tracker answers with
MaxPage == 2

---------------------------------------------------------------------------
(* Python values *)

None == <<>>
Some(v) == <<v>>

\* the glyph that starts every line the sync bot adds to a description
Glyph == "|"
LF == "\n"
Alphabet == {Glyph, LF, "a"}

Texts(n) == UNION {[1..k -> Alphabet] : k \in 0..n}

\* str.startswith with a one-character prefix
startswith(s, c) == Len(s) > 0 /\ s[1] = c

\* str.split('\n'): the pieces between line feeds; a text without one is a
\* single piece, and a trailing line feed leaves a last empty piece
RECURSIVE split(_)
split(s) ==
    IF \A i \in 1..Len(s) : s[i] # LF
    THEN <<s>>
    ELSE LET i == CHOOSE i \in 1..Len(s) :
                      s[i] = LF /\ \A j \in 1..(i - 1) : s[j] # LF
         IN  <<SubSeq(s, 1, i - 1)>> \o split(SubSeq(s, i + 1, Len(s)))

\* '\n'.join(lines)
RECURSIVE join(_)
join(lines) ==
    IF lines = <<>> THEN <<>>
    ELSE IF Len(lines) = 1 THEN lines[1]
    ELSE lines[1] \o <<LF>> \o join(Tail(lines))

IsMarker(line) == startswith(line, Glyph)
NotMarker(line) == ~startswith(line, Glyph)

---------------------------------------------------------------------------
(* Issue.merge_descriptions *)

\* variant: both groups joined as one list of lines
merge_descriptions_one_join(src, snk) ==
    LET own == startswith(snk, Glyph)
        unito_link == SelectSeq(split(IF own THEN snk ELSE src), IsMarker)
        new_description == SelectSeq(split(IF own THEN src ELSE snk), NotMarker)
    IN  join(new_description \o unito_link)

merge_descriptions(src, snk) ==
    LET own == startswith(snk, Glyph)
        unito_link == SelectSeq(split(IF own THEN snk ELSE src), IsMarker)
        new_description == SelectSeq(split(IF own THEN src ELSE snk), NotMarker)
    IN  join(new_description) \o join(unito_link)

---------------------------------------------------------------------------
(* Issue records *)

\* The attributes of an Issue that the model keeps.  jira_key, github_key,
\* status and story_points stand for the attributes update_from copies;
\* url stands for the transport attributes (headers, url, token).
Fields == {"assignees", "description", "github_key", "jira_key", "repo",
           "status", "story_points", "url"}

Classes == {"JiraIssue", "ZenHubIssue", "GitHubIssue"}

Obj(cls, assignees, description, github_key, jira_key, repo, status, story_points, url) ==
    [cls |-> cls,
     dict |-> [assignees |-> assignees, description |-> description,
               github_key |-> github_key, jira_key |-> jira_key,
               repo |-> repo, status |-> status,
               story_points |-> story_points, url |-> url]]

\* Issue.__init__: every attribute is None
NewIssue(cls) == Obj(cls, None, None, None, None, None, None, None, None)

\* Python truth value of an attribute: None, 0, '' and [] are false
Truthy(k, v) ==
    /\ v # None
    /\ CASE k = "story_points" -> v[1] # 0
         [] k \in {"description", "assignees"} -> v[1] # <<>>
         [] OTHER -> v[1] # ""

---------------------------------------------------------------------------
(* Issue.update_from, statement by statement.  self and src are records    *)
(* [cls, dict]; each step yields the updated self.                         *)

\* attribute names the copy skips
Excluded == {"headers", "url", "token", "description", "assignees", "repo"}

\* variant: the copy skips the names above except repo
CopyFields_repo(self, src) ==
    [self EXCEPT !.dict = [k \in Fields |->
        IF Truthy(k, src.dict[k]) /\ k \notin (Excluded \ {"repo"})
        THEN src.dict[k] ELSE self.dict[k]]]

\* self.__dict__.update({k: v for k, v in source.__dict__.items()
\*                       if v and k not in [...]})
CopyFields(self, src) ==
    [self EXCEPT !.dict = [k \in Fields |->
        IF Truthy(k, src.dict[k]) /\ k \notin Excluded
        THEN src.dict[k] ELSE self.dict[k]]]

\* variant: the default is applied only to a sink that has no story points
NumericDefault_blank(self, src) ==
    IF /\ src.cls = "JiraIssue"
       /\ src.dict["story_points"] = None
       /\ self.dict["story_points"] = None
    THEN [self EXCEPT !.dict["story_points"] = Some(0)]
    ELSE self

\* if source is a JiraIssue and source.story_points is None:
\*     self.story_points = 0
NumericDefault(self, src) ==
    IF src.cls = "JiraIssue" /\ src.dict["story_points"] = None
    THEN [self EXCEPT !.dict["story_points"] = Some(0)]
    ELSE self

\* variant: any source but a JiraIssue may supply the description as it is
DescriptionStep_notjira(self, src) ==
    IF /\ Truthy("description", self.dict["description"])
       /\ Truthy("description", src.dict["description"])
    THEN [self |-> [self EXCEPT !.dict["description"] =
                       Some(merge_descriptions(src.dict["description"][1],
                                               self.dict["description"][1]))],
          raised |-> FALSE]
    ELSE IF src.cls # "JiraIssue"
    THEN [self |-> [self EXCEPT !.dict["description"] = src.dict["description"]],
          raised |-> FALSE]
    ELSE [self |-> self, raised |-> TRUE]

\* variant: a GitHubIssue's description is merged into an empty one
DescriptionStep_mergeblank(self, src) ==
    IF /\ Truthy("description", self.dict["description"])
       /\ Truthy("description", src.dict["description"])
    THEN [self |-> [self EXCEPT !.dict["description"] =
                       Some(merge_descriptions(src.dict["description"][1],
                                               self.dict["description"][1]))],
          raised |-> FALSE]
    ELSE IF src.cls = "GitHubIssue"
    THEN [self |-> [self EXCEPT !.dict["description"] =
                       IF src.dict["description"] = None THEN None
                       ELSE Some(merge_descriptions(src.dict["description"][1],
                                                    <<>>))],
          raised |-> FALSE]
    ELSE [self |-> self, raised |-> TRUE]

\* the if / elif / else on the two descriptions; raised says that the
\* RuntimeError '... has no description' left the method
DescriptionStep(self, src) ==
    IF /\ Truthy("description", self.dict["description"])
       /\ Truthy("description", src.dict["description"])
    THEN [self |-> [self EXCEPT !.dict["description"] =
                       Some(merge_descriptions(src.dict["description"][1],
                                               self.dict["description"][1]))],
          raised |-> FALSE]
    ELSE IF src.cls = "GitHubIssue"
    THEN [self |-> [self EXCEPT !.dict["description"] = src.dict["description"]],
          raised |-> FALSE]
    ELSE [self |-> self, raised |-> TRUE]

update_from(self, src) ==
    DescriptionStep(NumericDefault(CopyFields(self, src), src), src)

\* variant: the method ends with 'return self'
ReturnValue_self(self) == Some(self)

\* the method has no return statement: a call that completes yields None
ReturnValue(self) == None

---------------------------------------------------------------------------
(* The records the calls are made with *)

Descriptions(n) == {None} \cup {Some(t) : t \in Texts(n)}
Points == {None, Some(0), Some(7)}

\* JiraIssue.__init__ always sets jira_key and status from the tracker's
\* answer and keeps no url of its own (the repo holds it)
WellFormed(o) ==
    o.cls = "JiraIssue" =>
        /\ o.dict["jira_key"] # None
        /\ o.dict["status"] # None
        /\ o.dict["url"] = None

Url(c) == IF c = "JiraIssue" THEN None ELSE Some("zenhub")

\* sources that differ in the keys and in the attributes the copy skips
KeySources ==
    {Obj(c, a, Some(<<"a">>), g, j, r, Some("Done"), Some(7), Url(c))
        : c \in {"JiraIssue", "ZenHubIssue"},
          a \in {None, Some(<<"aaaaa">>)},
          g \in {None, Some("25")}, j \in {None, Some("TEST-1")},
          r \in {Some("abc"), Some("TEST")}}

\* sources that differ in story points and status
PointSources ==
    {Obj(c, None, d, None, Some("TEST-1"), Some("abc"), st, p, Url(c))
        : c \in Classes, d \in {None, Some(<<"a">>)},
          st \in {None, Some("Done")}, p \in Points}

\* sources that differ in the description
DescSources ==
    {Obj(c, None, d, Some("25"), Some("TEST-1"), Some("abc"), Some("Done"),
         Some(7), Url(c))
        : c \in Classes, d \in Descriptions(MaxLen)}

Sources == {o \in KeySources \cup PointSources \cup DescSources : WellFormed(o)}

\* the sinks a run starts from: a JiraIssue has its jira_key, a ZenHubIssue
\* its github_key
Sinks ==
    {o \in {Obj(c, Some(<<"bbbbb">>), d, g, j, Some("TEST"), st, p,
                IF c = "JiraIssue" THEN None ELSE Some("jira"))
              : c \in {"JiraIssue", "ZenHubIssue"}, d \in Descriptions(MaxLen),
                g \in {None, Some("26")}, j \in {None, Some("TEST-2")},
                st \in {None, Some("In Progress")}, p \in Points}
        : /\ WellFormed(o)
          /\ o.cls = "ZenHubIssue" =>
                o.dict["github_key"] # None /\ o.dict["status"] = None}

\* no call in progress
NoSource == NewIssue("none")

Fits(d) == IF d = None THEN TRUE ELSE Len(d[1]) <= MaxDescLen

---------------------------------------------------------------------------
(* State machine *)

\* the parts of the state a specification does not use stay as they start
IssueIdle ==
    /\ sink = NewIssue("none") /\ source = NoSource /\ old = sink
    /\ outcome = "none" /\ retval = None

MergeIdle == md_source = None /\ md_sink = None /\ md_result = None

JiraIssueIdle ==
    /\ ji_key = None /\ ji_content = None /\ ji_response = None
    /\ ji_outcome = "none" /\ ji_issue = None

JiraRepoIdle ==
    /\ jr_data = <<>> /\ jr_max = 0 /\ jr_start = 0 /\ jr_requests = <<>>
    /\ jr_issues = <<>> /\ jr_pc = "none"

ApiIdle ==
    /\ api_server = None /\ api_action = "none" /\ api_page = None
    /\ api_outcome = "none" /\ api_content = None /\ api_requests = <<>>

Init ==
    /\ sink \in Sinks
    /\ source = NoSource
    /\ old = sink
    /\ outcome = "none"
    /\ retval = None
    /\ MergeIdle /\ JiraIssueIdle /\ JiraRepoIdle /\ ApiIdle

\* sink.update_from(src): the three steps in order; on the RuntimeError the
\* assignments made before it stay
UpdateFrom ==
    /\ outcome = "none"
    /\ \E src \in Sources :
         LET r == update_from(sink, src) IN
         /\ Fits(r.self.dict["description"])
         /\ sink' = r.self
         /\ outcome' = IF r.raised THEN "raised" ELSE "returned"
         /\ retval' = IF r.raised THEN None ELSE ReturnValue(r.self)
         /\ source' = src
    /\ old' = sink
    /\ UNCHANGED <<md_vars, ji_vars, jr_vars, api_vars>>

\* the caller has seen the result, or handled the exception, and lets go of
\* the source; the sink stays for the next call
Continue ==
    /\ outcome # "none"
    /\ outcome' = "none"
    /\ retval' = None
    /\ source' = NoSource
    /\ old' = sink
    /\ UNCHANGED <<sink, md_vars, ji_vars, jr_vars, api_vars>>

Next == UpdateFrom \/ Continue

Spec == Init /\ [][Next]_vars

\* merge_descriptions on its own, on every pair of texts
ExampleSource == <<"x", LF, "y", LF, Glyph, "s", LF>>
ExampleSink == <<Glyph, "o", LF, "z", LF>>
ExampleResult == <<"x", LF, "y", LF, Glyph, "o">>

MergeInputs ==
    (Texts(MaxText) \X Texts(MaxText)) \cup {<<ExampleSource, ExampleSink>>}

InitMerge ==
    /\ \E p \in MergeInputs : md_source = Some(p[1]) /\ md_sink = Some(p[2])
    /\ md_result = None
    /\ IssueIdle /\ JiraIssueIdle /\ JiraRepoIdle /\ ApiIdle

MergeCall ==
    /\ md_result = None
    /\ md_result' = Some(merge_descriptions(md_source[1], md_sink[1]))
    /\ UNCHANGED <<md_source, md_sink, issue_vars, ji_vars, jr_vars, api_vars>>

\* the result is merged with itself
MergeAgain ==
    /\ md_result # None
    /\ md_source # md_result \/ md_sink # md_result
    /\ md_source' = md_result
    /\ md_sink' = md_result
    /\ md_result' = None
    /\ UNCHANGED <<issue_vars, ji_vars, jr_vars, api_vars>>

NextMerge == MergeCall \/ MergeAgain

SpecMerge == InitMerge /\ [][NextMerge]_vars


---------------------------------------------------------------------------
(* JiraIssue.__init__, src/src/jira.py *)

\* One issue of a search answer, content['key'] and content['fields'].  The
\* story point field is None when the answer has no such field, Some(None)
\* when it is null and Some(Some(n)) when it is a number.
Content(key, assignee, description, status, points) ==
    [key |-> key, assignee |-> assignee, description |-> description,
     status |-> status, story_points |-> points]

Contents ==
    {Content(k, a, d, st, p)
        : k \in {"TEST-1", "TEST-2"}, a \in {None, Some("aaaaa")},
          d \in {None, Some(<<"a">>), Some(<<"a", LF, Glyph>>)},
          st \in {"Done"}, p \in {None} \cup {Some(q) : q \in Points}}

\* The answer to search?jql=id=KEY: a status code and a body whose 'issues'
\* entry is absent (None) or a list
Response(code, issues) == [status_code |-> code, issues |-> issues]

Responses ==
    {Response(c, i)
        : c \in {200, 400, 404},
          i \in {None, Some(<<>>)} \cup {Some(<<x>>) : x \in Contents}}

\* get_github_equivalent: the regular expression 'Repository Name: ...
\* Issue Number: ...' matches no text over the model's alphabet
get_github_equivalent(description) == None

\* the assignments of __init__ from a content (lines 93-124)
FromContent(repo, content) ==
    Obj("JiraIssue",
        IF content.assignee # None THEN Some(<<content.assignee[1]>>) ELSE None,
        content.description,
        get_github_equivalent(content.description),
        Some(content.key),
        repo,
        Some(content.status),
        IF content.story_points # None THEN content.story_points[1] ELSE None,
        None)

\* JiraIssue(repo, key=..., content=...): with a key, the content is the
\* first issue of the tracker's answer
JiraIssue_init(repo, key, content, response) ==
    IF key # None
    THEN IF response.status_code # 200
         THEN [raised |-> "ValueError", issue |-> None]
         ELSE IF response.issues = None
         THEN [raised |-> "ValueError", issue |-> None]
         ELSE IF response.issues[1] = <<>>
         THEN [raised |-> "IndexError", issue |-> None]
         ELSE [raised |-> "none",
               issue |-> Some(FromContent(repo, response.issues[1][1]))]
    ELSE [raised |-> "none", issue |-> Some(FromContent(repo, content[1]))]

\* a construction by key, with the answer the tracker gives, or from a
\* content already fetched
InitJiraIssue ==
    /\ \/ /\ ji_key \in {Some("TEST-1")}
          /\ ji_response \in {Some(r) : r \in Responses}
          /\ ji_content = None
       \/ /\ ji_key = None
          /\ ji_response = None
          /\ ji_content \in {Some(c) : c \in Contents}
    /\ ji_outcome = "none"
    /\ ji_issue = None
    /\ IssueIdle /\ MergeIdle /\ JiraRepoIdle /\ ApiIdle

NewJiraIssue ==
    /\ ji_outcome = "none"
    /\ LET r == JiraIssue_init(Some("TEST"), ji_key, ji_content,
                               IF ji_response = None THEN None
                               ELSE ji_response[1])
       IN  /\ ji_outcome' = IF r.raised = "none" THEN "constructed" ELSE r.raised
           /\ ji_issue' = r.issue
    /\ UNCHANGED <<ji_key, ji_content, ji_response, issue_vars, md_vars, jr_vars, api_vars>>

NextJiraIssue == NewJiraIssue

SpecJiraIssue == InitJiraIssue /\ [][NextJiraIssue]_vars

---------------------------------------------------------------------------
(* JiraRepo.api_call, src/src/jira.py *)

\* the key of the i-th issue of the project
KeyOf(i) == "TEST-" \o ToString(i)

\* what the tracker holds: issues 1..n with their keys, in a fixed order
TrackerData(n) ==
    {[i \in 1..n |-> Content(KeyOf(i), None, Some(<<"a">>), "Done", p[i])]
        : p \in [1..n -> {None, Some(Some(7))}]}

Min(a, b) == IF a <= b THEN a ELSE b

\* the answer to search?jql=project=NAME&startAt=start: the total, the page
\* size and the issues of that page
SearchPage(data, maxResults, start) ==
    [total |-> Len(data), maxResults |-> maxResults,
     issues |-> SubSeq(data, start + 1, Min(start + maxResults, Len(data)))]

\* for issue in response['issues']:
\*     self.issues[issue['key']] = JiraIssue(content=issue, repo=self)
StoreIssues(issues, page, repo) ==
    LET keys == {page[i].key : i \in DOMAIN page}
        last(k) == CHOOSE i \in DOMAIN page :
                       page[i].key = k
                       /\ \A j \in DOMAIN page : page[j].key = k => j <= i
    IN  [k \in DOMAIN issues \cup keys |->
            IF k \in keys
            THEN JiraIssue_init(repo, None, Some(page[last(k)]), None).issue[1]
            ELSE issues[k]]

\* variant: the next page is asked for one issue too far
NextStart_skip(start, response) ==
    IF response.total >= start + response.maxResults
    THEN Some(start + response.maxResults + 1)
    ELSE None

\* if response['total'] >= start + response['maxResults']: the start of the
\* recursive call, or None when the call returns
NextStart(start, response) ==
    IF response.total >= start + response.maxResults
    THEN Some(start + response.maxResults)
    ELSE None

\* JiraRepo.api_call() is entered with start=0 and an empty self.issues
InitJiraRepo ==
    /\ \E n \in 0..MaxTotal : jr_data \in TrackerData(n)
    /\ jr_max \in 1..MaxPage
    /\ jr_start = 0
    /\ jr_requests = <<>>
    /\ jr_issues = <<>>
    /\ jr_pc = "call"
    /\ IssueIdle /\ MergeIdle /\ JiraIssueIdle /\ ApiIdle

\* one invocation of api_call(start): the request, the loop over the page
\* and the test for a further page; the recursive call is the next step and
\* nothing follows it
ApiCallPage ==
    /\ jr_pc = "call"
    /\ LET response == SearchPage(jr_data, jr_max, jr_start)
           next == NextStart(jr_start, response)
       IN  /\ jr_requests' = Append(jr_requests, jr_start)
           /\ jr_issues' = StoreIssues(jr_issues, response.issues, Some("TEST"))
           /\ jr_start' = IF next = None THEN jr_start ELSE next[1]
           /\ jr_pc' = IF next = None THEN "done" ELSE "call"
    /\ UNCHANGED <<jr_data, jr_max, issue_vars, md_vars, ji_vars, api_vars>>

NextJiraRepo == ApiCallPage

\* a call that was entered runs until it returns
SpecJiraRepo ==
    InitJiraRepo /\ [][NextJiraRepo]_vars /\ WF_vars(NextJiraRepo)

---------------------------------------------------------------------------
(* Repo.api_call, src/src/issue.py *)

\* A paginated API: its records in order, its page size, the style of its
\* answers and the request (counted from 1) it answers with an error status;
\* fail_at = 0 means every request succeeds.
Server(style, records, size, fail_at) ==
    [style |-> style, records |-> records, size |-> size, fail_at |-> fail_at]

Servers ==
    {Server(st, [i \in 1..n |-> i], m, f)
        : st \in {"jira", "github"}, n \in 0..MaxTotal, m \in 1..MaxPage,
          f \in 0..2}

\* The body and the Link header of the answer to a GET with the given page.
\* Jira: page is the offset startAt and the body holds total, maxResults and
\* the issues of that page.  GitHub: pages count from 1 (0 is treated as 1),
\* the body holds the items of that page and the Link header names a next
\* page while there is one.
Answer(server, page) ==
    LET n == Len(server.records)
        m == server.size
        p == IF page = None THEN 0 ELSE page[1]
        g == IF p < 1 THEN 1 ELSE p
    IN  IF server.style = "jira"
        THEN [json |-> [total |-> n, maxResults |-> m,
                        issues |-> SubSeq(server.records, p + 1, Min(p + m, n))],
              link_next |-> FALSE]
        ELSE [json |-> [items |-> SubSeq(server.records, (g - 1) * m + 1,
                                         Min(g * m, n))],
              link_next |-> g * m < n]

\* dict.update
DictUpdate(a, b) ==
    [k \in DOMAIN a \cup DOMAIN b |-> IF k \in DOMAIN b THEN b[k] ELSE a[k]]

\* truth value of the page argument: '' (the default, None here) and 0 are
\* false
PageTruthy(page) == page # None /\ page[1] # 0

\* Repo.api_call(action, url_tail, page=page): reqs are the pages requested
\* so far; the result tells whether RuntimeError was raised, the content
\* returned and the pages requested
RECURSIVE api_call(_, _, _, _)
api_call(server, action, page, reqs) ==
    LET requests == Append(reqs, page)
        response == Answer(server, page)
        ok == server.fail_at # Len(requests)
        content == IF action = "get" THEN response.json ELSE <<>>
    IN  IF ~ok
        THEN [raised |-> TRUE, content |-> None, requests |-> requests]
        ELSE IF ~PageTruthy(page)
        THEN [raised |-> FALSE, content |-> Some(content), requests |-> requests]
        ELSE IF "maxResults" \in DOMAIN content
        THEN IF content["total"] >= page[1] + content["maxResults"]
             THEN LET rest == api_call(server, action,
                                       Some(page[1] + content["maxResults"]),
                                       requests)
                  IN  IF rest.raised THEN rest
                      ELSE [raised |-> FALSE,
                            content |-> Some(DictUpdate(content, rest.content[1])),
                            requests |-> rest.requests]
             ELSE [raised |-> FALSE, content |-> Some(content),
                   requests |-> requests]
        ELSE IF response.link_next
        THEN LET rest == api_call(server, action, Some(page[1] + 1), requests)
             IN  IF rest.raised THEN rest
                 ELSE [raised |-> FALSE,
                       content |-> Some([content EXCEPT !["items"] =
                                           @ \o rest.content[1]["items"]]),
                       requests |-> rest.requests]
        ELSE [raised |-> FALSE, content |-> Some(content), requests |-> requests]

\* a GET with the initial page 0 or 1, or another request without a page
InitApi ==
    /\ api_server \in {Some(sv) : sv \in Servers}
    /\ \/ api_action = "get" /\ api_page \in {Some(0), Some(1)}
       \/ api_action = "post" /\ api_page = None
    /\ api_outcome = "none"
    /\ api_content = None
    /\ api_requests = <<>>
    /\ IssueIdle /\ MergeIdle /\ JiraIssueIdle /\ JiraRepoIdle

RepoApiCall ==
    /\ api_outcome = "none"
    /\ LET r == api_call(api_server[1], api_action, api_page, <<>>)
       IN  /\ api_outcome' = IF r.raised THEN "raised" ELSE "returned"
           /\ api_content' = r.content
           /\ api_requests' = r.requests
    /\ UNCHANGED <<api_server, api_action, api_page, issue_vars, md_vars,
                   ji_vars, jr_vars>>

NextApi == RepoApiCall

SpecApi == InitApi /\ [][NextApi]_vars

---------------------------------------------------------------------------
(* Vocabulary of the properties *)

Called == outcome # "none"
Returned == outcome = "returned"

Desc(o) == o.dict["description"]
Points_(o) == o.dict["story_points"]

\* the lines of a text, by the positions of its line feeds
Cuts(t) == {0} \cup {i \in 1..Len(t) : t[i] = LF} \cup {Len(t) + 1}
CutAt(t, n) == CHOOSE c \in Cuts(t) : Cardinality({d \in Cuts(t) : d < c}) = n
LinesOf(t) ==
    [k \in 1..(Cardinality(Cuts(t)) - 1) |->
        SubSeq(t, CutAt(t, k - 1) + 1, CutAt(t, k) - 1)]

HasGlyph(line) == line # <<>> /\ Head(line) = Glyph
MarkerLines(d) == IF d = None THEN <<>> ELSE SelectSeq(LinesOf(d[1]), HasGlyph)
NarrativeLines(d) ==
    IF d = None THEN <<>>
    ELSE SelectSeq(LinesOf(d[1]), LAMBDA l : ~HasGlyph(l))
\* the narrative lines that are not blank
WrittenLines(d) == SelectSeq(NarrativeLines(d), LAMBDA l : l # <<>>)
IsLineOf(l, d) == d # None /\ \E i \in DOMAIN LinesOf(d[1]) : LinesOf(d[1])[i] = l

\* an attribute that holds a value: not None, not the empty text or list
NonEmpty(k, v) ==
    /\ v # None
    /\ CASE k = "story_points" -> TRUE
         [] k \in {"description", "assignees"} -> v[1] # <<>>
         [] OTHER -> v[1] # ""

\* the key of a record in its own tracker
NativeKey(o) ==
    IF o.cls = "JiraIssue" THEN o.dict["jira_key"] ELSE o.dict["github_key"]

---------------------------------------------------------------------------
(* Properties *)

\* C1: a reconcile that completes leaves in sink's description every marker
\* line the description had before, each still a line starting with the glyph.
C1_MarkerLinesSurvive ==
    Returned =>
        \A i \in DOMAIN MarkerLines(Desc(old)) :
            IsLineOf(MarkerLines(Desc(old))[i], Desc(sink))

\* C2 as stated: reconcile never changes sink's native key, sink.assignees or
\* sink's repo.
C2_ProtectedUnchanged ==
    Called =>
        /\ NativeKey(sink) = NativeKey(old)
        /\ sink.dict["assignees"] = old.dict["assignees"]
        /\ sink.dict["repo"] = old.dict["repo"]

\* C2 as amended: reconcile never changes sink.assignees, sink's repo or
\* sink's url; jira_key and github_key are each overwritten by source's value
\* when source holds one and are left as they were otherwise.
C2_AssigneesRepoKept ==
    Called =>
        /\ sink.dict["assignees"] = old.dict["assignees"]
        /\ sink.dict["repo"] = old.dict["repo"]
        /\ sink.dict["url"] = old.dict["url"]
        /\ sink.cls = old.cls
        /\ \A k \in {"jira_key", "github_key"} :
              sink.dict[k] = IF NonEmpty(k, source.dict[k])
                             THEN source.dict[k] ELSE old.dict[k]

C2_Witness ==
    /\ Called
    /\ NonEmpty("assignees", source.dict["assignees"])
    /\ source.dict["assignees"] # old.dict["assignees"]
    /\ source.dict["repo"] # old.dict["repo"]
    /\ NativeKey(old) # None
    /\ NativeKey(sink) # NativeKey(old)
    /\ NativeKey(sink) = NativeKey(source)

\* C3: when both descriptions are non-empty and marker lines are on exactly
\* one side, after reconcile sink's marker lines are those it had before and
\* its narrative lines are source's non-marker lines (here: up to blank
\* lines, which the claim implies).
C3_MarkersKeptNarrativeReplaced ==
    ( /\ Returned
      /\ NonEmpty("description", Desc(old))
      /\ NonEmpty("description", Desc(source))
      /\ (MarkerLines(Desc(old)) = <<>>) # (MarkerLines(Desc(source)) = <<>>) )
    => /\ MarkerLines(Desc(sink)) = MarkerLines(Desc(old))
       /\ WrittenLines(Desc(sink)) = WrittenLines(Desc(source))

\* C4: every attribute that is None in source keeps sink's value, whether the
\* call completes or fails.
C4_NoneLeftAlone ==
    Called =>
        \A k \in Fields :
            source.dict[k] = None => sink.dict[k] = old.dict[k]

\* C5: every non-empty attribute of source outside the protected set has
\* source's value in sink after reconcile.
C5_NonEmptyCopied ==
    Called =>
        \A k \in Fields \ {"assignees", "description", "repo", "headers",
                           "url", "token"} :
            NonEmpty(k, source.dict[k]) => sink.dict[k] = source.dict[k]

\* C6: after a reconcile from a JiraIssue, sink.story_points is not None.
C6_StoryPointsNotNull ==
    (Called /\ source.cls = "JiraIssue") => Points_(sink) # None

MergedAsStated(src, snk) ==
    IF HasGlyph(LinesOf(snk)[1])
    THEN join(NarrativeLines(Some(src))) \o join(MarkerLines(Some(snk)))
    ELSE join(NarrativeLines(Some(snk))) \o join(MarkerLines(Some(src)))

C9_SelfMergeKeepsContent ==
    (md_result # None /\ md_source = md_sink /\ MarkerLines(md_source) # <<>>)
    => /\ MarkerLines(md_result) = MarkerLines(md_source)
       /\ WrittenLines(md_result) = WrittenLines(md_source)
       /\ merge_descriptions(md_result[1], md_result[1]) = md_result[1]

\* C10: when sink and source do not both have a non-empty description and
\* source is not a GitHubIssue, reconcile raises and sink.description is as
\* it was.
C10_MissingDescriptionRaises ==
    ( /\ Called
      /\ ~(NonEmpty("description", Desc(old))
             /\ NonEmpty("description", Desc(source)))
      /\ source.cls # "GitHubIssue" )
    => outcome = "raised" /\ Desc(sink) = Desc(old)

C10_Witness ==
    /\ outcome = "raised"
    /\ source.cls = "JiraIssue"
    /\ Desc(source) = None
    /\ Desc(old) = None
    /\ Desc(sink) = None

\* C11: when reconcile fails at the description step, every other update
\* has been applied and stays: each non-empty attribute of source outside
\* the protected set has source's value in sink, story_points is 0 where the
\* numeric default applies, and the description is as before.
C11_UpdatesStayOnFailure ==
    outcome = "raised" =>
        /\ \A k \in Fields \ {"assignees", "description", "repo", "headers",
                              "url", "token"} :
              NonEmpty(k, source.dict[k]) => sink.dict[k] = source.dict[k]
        /\ (source.cls = "JiraIssue" /\ Points_(source) = None)
              => Points_(sink) = Some(0)
        /\ Desc(sink) = Desc(old)

\* C12 as stated: a reconcile call that completes returns the sink record.
C12_ReturnsSink ==
    Returned => retval = Some(sink)

\* C12 as amended: a reconcile call that completes returns None; the updated
\* record is the sink it was called on, mutated in place.
C12_ReturnsNone ==
    Returned => retval = None /\ sink = update_from(old, source).self

C12_Witness ==
    /\ Returned
    /\ retval = None
    /\ sink # old
    /\ Desc(sink) # Desc(old)

\* C13: a sink without description, updated from a GitHubIssue that has a
\* non-empty one, gets exactly that description and the call does not raise.
C13_Bootstrap ==
    ( /\ Called
      /\ Desc(old) = None
      /\ source.cls = "GitHubIssue"
      /\ NonEmpty("description", Desc(source)) )
    => Returned /\ Desc(sink) = Desc(source)

C13_Witness ==
    /\ Returned
    /\ Desc(old) = None
    /\ source.cls = "GitHubIssue"
    /\ Desc(source) = Some(<<"a", LF>>)
    /\ Desc(sink) = Some(<<"a", LF>>)

\* the tracker's answer to a search by key holds no issue
NoIssueFound ==
    /\ ji_key # None
    /\ \/ ji_response[1].status_code # 200
       \/ ji_response[1].issues = None
       \/ ji_response[1].issues = Some(<<>>)

\* C14: constructing a JiraIssue by key fails with ValueError whenever the
\* tracker's answer holds no issue for the key (status other than 200, no
\* 'issues' entry, or an empty 'issues' list), and no JiraIssue is produced.
C14_NotFoundIsValueError ==
    (ji_outcome # "none" /\ NoIssueFound)
    => ji_outcome = "ValueError" /\ ji_issue = None

\* every issue the tracker holds is in self.issues under its key, built from
\* its content
AllIssuesHeld ==
    /\ DOMAIN jr_issues = {jr_data[i].key : i \in DOMAIN jr_data}
    /\ \A i \in DOMAIN jr_data :
          jr_issues[jr_data[i].key] = FromContent(Some("TEST"), jr_data[i])

C15_Pages ==
    /\ \A i, j \in DOMAIN jr_requests : i < j => jr_requests[i] < jr_requests[j]
    /\ Len(jr_requests) <= (Len(jr_data) \div jr_max) + 1
    /\ jr_pc = "done" =>
          /\ jr_requests # <<>> /\ jr_requests[1] = 0
          /\ Len(jr_data) < jr_requests[Len(jr_requests)] + jr_max
          /\ AllIssuesHeld

\* C15: with total and page size fixed, api_call(start=0) makes finitely many
\* requests with strictly increasing offsets, stops when the tracker reports
\* no further page, and on return self.issues holds a JiraIssue for every
\* issue of the project.
C15_AllPagesFetched == []C15_Pages /\ <>(jr_pc = "done")

C15_Witness ==
    /\ jr_pc = "done"
    /\ Len(jr_data) >= 3
    /\ jr_max = 2
    /\ Len(jr_requests) >= 2
    /\ AllIssuesHeld

\* a GET that starts at the initial page of the API's style
InitialPageCall ==
    /\ api_outcome # "none"
    /\ api_action = "get"
    /\ api_page = IF api_server[1].style = "jira" THEN Some(0) ELSE Some(1)

\* the records held by the content returned
RecordsReturned ==
    IF api_server[1].style = "jira" THEN api_content[1]["issues"]
    ELSE api_content[1]["items"]

\* the call received an answer whose status is not success_code
FailedAnswer ==
    /\ api_server[1].fail_at # 0
    /\ api_server[1].fail_at <= Len(api_requests)

\* C16: called with the initial page number (0 for the Jira style, 1 for the
\* GitHub style), api_call requests the following pages until there are no
\* more and returns the records of every page as one flat collection; on an
\* answer whose status is not success_code it raises and requests no
\* further page.
C16_AllPagesFlat ==
    InitialPageCall =>
        IF FailedAnswer
        THEN /\ api_outcome = "raised"
             /\ Len(api_requests) = api_server[1].fail_at
        ELSE /\ api_outcome = "returned"
             /\ RecordsReturned = api_server[1].records

====
